---- MODULE Spec2Model ----
(***************************************************************************)
(* A model of gnosis/eth/eip712/__init__.py: the EIP-712 type resolver     *)
(* (encode_type, find_type_dependencies), the data encoder (encode_data),  *)
(* the digest assembler (eip712_encode, eip712_encode_hash) and            *)
(* eip712_signature.                                                       *)
(*                                                                         *)
(* Python strings are sequences of one-character strings; Python bytes are *)
(* sequences of items, an item being a literal byte [k |-> "byte", v |-> n]*)
(* or an opaque 32-byte / ABI block.  The three external primitives        *)
(* (keccak, the ABI tuple encoder, the signer) are injective constructors. *)
(* An outcome of a call is Ok(value) or Raise(exception kind).             *)
(***************************************************************************)
EXTENDS Integers, Sequences, FiniteSets, TLC

VARIABLES
    op,        \* the operation that produced `out` ("init" before any call)
    types,     \* the type schema table: a function from type names to field lists
    primary,   \* the primary_type argument
    results,   \* find_type_dependencies: the shared `results` list
    stack,     \* find_type_dependencies: the call stack, innermost frame last
    visits,    \* history: how many times each type's field loop was entered
    field,     \* encode_data: the declared type of the field under test
    data,      \* encode_data: the value of the field under test
    data2,     \* a second value for the same field
    handed,    \* history: the tag and value lists encode_data built
    doc,       \* eip712_encode: the typed-data document
    payload,   \* eip712_signature: the payload argument
    key,       \* eip712_signature: the private_key argument
    raised,    \* history: the exception raised inside eip712_encode's try block
    out        \* the outcome of the last operation
vars == <<op, types, primary, results, stack, visits, field, data, data2, handed,
          doc, payload, key, raised, out>>

resolverVars == <<results, stack, visits>>
dataVars == <<field, data, data2, handed>>
docVars == <<doc, payload, key, raised>>

----------------------------------------------------------------------------
(* Strings *)

\* The code point of a character (ord).
Ord(c) ==
    CASE c = " " -> 32 [] c = "(" -> 40 [] c = ")" -> 41 [] c = "," -> 44
      [] c = "0" -> 48 [] c = "1" -> 49 [] c = "2" -> 50 [] c = "3" -> 51
      [] c = "4" -> 52 [] c = "5" -> 53 [] c = "6" -> 54 [] c = "7" -> 55
      [] c = "8" -> 56 [] c = "9" -> 57 [] c = "B" -> 66 [] c = "D" -> 68
      [] c = "E" -> 69 [] c = "I" -> 73 [] c = "M" -> 77 [] c = "P" -> 80
      [] c = "[" -> 91 [] c = "]" -> 93 [] c = "a" -> 97 [] c = "b" -> 98
      [] c = "c" -> 99 [] c = "d" -> 100 [] c = "e" -> 101 [] c = "f" -> 102
      [] c = "g" -> 103 [] c = "i" -> 105 [] c = "m" -> 109 [] c = "n" -> 110
      [] c = "o" -> 111 [] c = "r" -> 114 [] c = "s" -> 115 [] c = "t" -> 116
      [] c = "u" -> 117 [] c = "x" -> 120 [] c = "y" -> 121 [] c = "z" -> 122

\* \w of the re module on ASCII text: a letter, a digit or the underscore.
IsWordChar(c) ==
    LET n == Ord(c) IN
    \/ (48 <= n /\ n <= 57)
    \/ (65 <= n /\ n <= 90)
    \/ (97 <= n /\ n <= 122)
    \/ n = 95

\* Python's str < str: lexicographic by code point, a proper prefix first.
RECURSIVE StrLess(_, _)
StrLess(a, b) ==
    IF b = <<>> THEN FALSE
    ELSE IF a = <<>> THEN TRUE
    ELSE IF Ord(Head(a)) # Ord(Head(b)) THEN Ord(Head(a)) < Ord(Head(b))
    ELSE StrLess(Tail(a), Tail(b))

InSeq(x, s) == \E i \in 1..Len(s) : s[i] = x

\* str.join
RECURSIVE Join(_, _)
Join(sep, parts) ==
    IF parts = <<>> THEN <<>>
    ELSE IF Len(parts) = 1 THEN parts[1]
    ELSE parts[1] \o sep \o Join(sep, Tail(parts))

\* str.endswith("]")
EndsWithBracket(s) == Len(s) > 0 /\ s[Len(s)] = "]"

\* s[:-2]
DropLast2(s) == IF Len(s) <= 2 THEN <<>> ELSE SubSeq(s, 1, Len(s) - 2)

\* The value of F at the value of x, with x evaluated once (TLC evaluates a LET
\* definition and an operator argument again at each use).
Bind(x, F(_)) == CHOOSE r \in {F(v) : v \in {x}} : TRUE

\* Outcomes of a call.
Ok(v) == [k |-> "ok", v |-> v]
Raise(e) == [k |-> "raise", e |-> e]
IsOk(r) == r.k = "ok"

----------------------------------------------------------------------------
(* Type resolver *)

\* re.split(r"\W", primary_type)[0]: the text before the first non-word character.
RECURSIVE FirstWord(_)
FirstWord(s) ==
    IF s = <<>> \/ ~IsWordChar(Head(s)) THEN <<>>
    ELSE <<Head(s)>> \o FirstWord(Tail(s))

\* A lookup that takes an empty field list for a definition.
HasEntry(tys, name) == name \in DOMAIN tys

\* types.get(name) as a truth value: present and not empty.
HasFields(tys, name) == name \in DOMAIN tys /\ tys[name] # <<>>

\* for dep in deps: if dep not in results: results.append(dep)
RECURSIVE AppendMissing(_, _, _)
AppendMissing(deps, i, res) ==
    IF i > Len(deps) THEN res
    ELSE AppendMissing(deps, i + 1,
                       IF InSeq(deps[i], res) THEN res ELSE Append(res, deps[i]))

\* A visited test that never recognises a visited type.
NeverVisited(pt, res) == FALSE

\* primary_type in results
AlreadyVisited(pt, res) == InSeq(pt, res)

RECURSIVE find_type_dependencies(_, _, _)
RECURSIVE VisitFields(_, _, _, _)
find_type_dependencies(primary_type, tys, res) ==
    Bind(FirstWord(primary_type), LAMBDA pt :
        IF AlreadyVisited(pt, res) \/ ~HasFields(tys, pt) THEN res
        ELSE VisitFields(tys[pt], 1, tys, Append(res, pt)))

\* The loop over types[primary_type]; the recursive call returns the shared list.
VisitFields(fields, i, tys, res) ==
    IF i > Len(fields) THEN res
    ELSE Bind(find_type_dependencies(fields[i].type, tys, res), LAMBDA deps :
              VisitFields(fields, i + 1, tys, AppendMissing(deps, 1, deps)))

\* sorted(): insertion of each element before the first greater one.
RECURSIVE InsertSorted(_, _)
InsertSorted(x, s) ==
    IF s = <<>> THEN <<x>>
    ELSE IF StrLess(x, Head(s)) THEN <<x>> \o s
    ELSE <<Head(s)>> \o InsertSorted(x, Tail(s))

\* A sort that leaves the list in first-discovery order.
SortedNoSort(s) == s

RECURSIVE Sorted(_)
Sorted(s) ==
    IF s = <<>> THEN <<>>
    ELSE Bind(Sorted(Tail(s)), LAMBDA rest : InsertSorted(Head(s), rest))

\* [d for d in deps if d != primary_type]
RECURSIVE Without(_, _)
Without(s, x) ==
    IF s = <<>> THEN <<>>
    ELSE IF Head(s) = x THEN Without(Tail(s), x)
    ELSE <<Head(s)>> \o Without(Tail(s), x)

\* typ + "(" + ",".join(f"{t['type']} {t['name']}" for t in types[typ]) + ")"
Rendering(typ, fields) ==
    typ \o <<"(">>
        \o Join(<<",">>, [i \in 1..Len(fields) |->
                             fields[i].type \o <<" ">> \o fields[i].name])
        \o <<")">>

\* deps of encode_type: [primary_type] + sorted(the others)
OrderedDeps(primary_type, tys) ==
    <<primary_type>>
        \o Sorted(Without(find_type_dependencies(primary_type, tys, <<>>),
                          primary_type))

\* The loop of encode_type over deps, from position i with `result` so far.
RECURSIVE EncodeTypeLoop(_, _, _, _)
EncodeTypeLoop(deps, i, tys, result) ==
    IF i > Len(deps) THEN Ok(result)
    ELSE IF deps[i] \notin DOMAIN tys THEN Raise("KeyError")
    ELSE IF tys[deps[i]] = <<>> THEN Raise("Exception")
    ELSE EncodeTypeLoop(deps, i + 1, tys,
                        result \o Rendering(deps[i], tys[deps[i]]))

encode_type(primary_type, tys) ==
    Bind(OrderedDeps(primary_type, tys),
         LAMBDA deps : EncodeTypeLoop(deps, 1, tys, <<>>))

----------------------------------------------------------------------------
(* Values, bytes and the external primitives *)

PyNone == [k |-> "none"]
PyInt(n) == [k |-> "int", i |-> n]
PyStr(s) == [k |-> "str", s |-> s]
PyBytes(b) == [k |-> "bytes", b |-> b]
PyDict(f) == [k |-> "dict", d |-> f]
PyList(s) == [k |-> "list", l |-> s]

Byte(n) == [k |-> "byte", n |-> n]

\* str.encode("utf-8") on ASCII text.
Utf8(s) == [i \in 1..Len(s) |-> Byte(Ord(s[i]))]

\* fast_keccak: 32 bytes that determine the bytes hashed; only bytes can be hashed.
fast_keccak(value) ==
    IF value.k = "bytes" THEN Ok(PyBytes(<<[k |-> "keccak", pre |-> value.b]>>))
    ELSE Raise("TypeError")

TBytes32 == <<"b", "y", "t", "e", "s", "3", "2">>
TBytes == <<"b", "y", "t", "e", "s">>
TString == <<"s", "t", "r", "i", "n", "g">>
TUint8 == <<"u", "i", "n", "t", "8">>

IsWord32(value) ==
    /\ value.k = "bytes"
    /\ \/ (Len(value.b) = 1 /\ value.b[1].k = "keccak")
       \/ (Len(value.b) <= 32 /\ \A i \in 1..Len(value.b) : value.b[i].k = "byte")

\* What the ABI tuple encoder takes for a type tag: bytes for bytes32, an
\* integer of the width for uint8, and nothing for a tag that is no ABI type.
AbiAccepts(tag, value) ==
    \/ tag = TBytes32 /\ IsWord32(value)
    \/ tag = TUint8 /\ value.k = "int" /\ value.i >= 0 /\ value.i < 256

\* encode_abi: bytes that determine the tags and the values encoded.
encode_abi(tags, values) ==
    IF Len(tags) = Len(values) /\ \A i \in 1..Len(tags) : AbiAccepts(tags[i], values[i])
    THEN Ok(PyBytes(<<[k |-> "abi", tags |-> tags, values |-> values]>>))
    ELSE Raise("EncodingError")

----------------------------------------------------------------------------
(* Data encoder *)

\* The literal of line 52: the text "0x" followed by 64 zeros.
ZeroWord == PyStr([i \in 1..66 |-> IF i = 2 THEN "x" ELSE "0"])

\* data[name]
Subscript(value, name) ==
    IF value.k # "dict" THEN Raise("TypeError")
    ELSE IF name \in DOMAIN value.d THEN Ok(value.d[name])
    ELSE Raise("KeyError")

\* for v in value: a list gives its elements, a string its characters; None and
\* an integer are not iterable.
Iterate(value) ==
    IF value.k = "list" THEN Ok(value.l)
    ELSE IF value.k = "str" THEN Ok([i \in 1..Len(value.s) |-> PyStr(<<value.s[i]>>)])
    ELSE Raise("TypeError")

\* dict(pairs).keys(): the distinct first components, in order of first occurrence.
RECURSIVE DictKeys(_, _, _)
DictKeys(pairs, i, keys) ==
    IF i > Len(pairs) THEN keys
    ELSE DictKeys(pairs, i + 1,
                  IF InSeq(pairs[i][1], keys) THEN keys ELSE Append(keys, pairs[i][1]))

\* dict(pairs).values(): for each key the second component of its last pair.
DictValues(pairs) ==
    LET keys == DictKeys(pairs, 1, <<>>)
        last(t) == CHOOSE i \in 1..Len(pairs) :
                      /\ pairs[i][1] = t
                      /\ \A j \in 1..Len(pairs) : pairs[j][1] = t => j <= i
    IN [n \in 1..Len(keys) |-> pairs[last(keys[n])][2]]

hash_type(primary_type, tys) ==
    Bind(encode_type(primary_type, tys), LAMBDA e :
        IF IsOk(e) THEN fast_keccak(PyBytes(Utf8(e.v))) ELSE e)

RECURSIVE encode_field(_, _, _)
RECURSIVE EncodeElements(_, _, _, _, _)
RECURSIVE EncodeFields(_, _, _, _, _, _)
RECURSIVE encoded_pairs(_, _, _)
RECURSIVE encode_data(_, _, _)

\* _encode_field: Ok(<<tag, value>>) or the exception raised.
encode_field(typ, value, tys) ==
    IF typ \in DOMAIN tys THEN
        IF value = PyNone THEN Ok(<<TBytes32, ZeroWord>>)
        ELSE Bind(encode_data(typ, value, tys), LAMBDA e :
                 IF ~IsOk(e) THEN e
                 ELSE LET h == fast_keccak(e.v)
                      IN IF ~IsOk(h) THEN h ELSE Ok(<<TBytes32, h.v>>))
    ELSE IF value = PyNone THEN Raise("Exception")
    ELSE IF typ = TBytes THEN
        LET h == fast_keccak(value)
        IN IF IsOk(h) THEN Ok(<<TBytes32, h.v>>) ELSE h
    ELSE IF typ = TString THEN
        IF value.k # "str" THEN Raise("AttributeError")
        ELSE LET h == fast_keccak(PyBytes(Utf8(value.s)))
             IN IF IsOk(h) THEN Ok(<<TBytes32, h.v>>) ELSE h
    ELSE IF EndsWithBracket(typ) THEN
        LET it == Iterate(value)
        IN IF ~IsOk(it) THEN it
           ELSE Bind(EncodeElements(DropLast2(typ), it.v, 1, <<>>, tys), LAMBDA ps :
                    IF ~IsOk(ps) THEN ps
                    ELSE Bind(encode_abi(DictKeys(ps.v, 1, <<>>), DictValues(ps.v)),
                              LAMBDA enc :
                                  IF ~IsOk(enc) THEN enc
                                  ELSE LET h == fast_keccak(enc.v)
                                       IN IF ~IsOk(h) THEN h
                                          ELSE Ok(<<TBytes32, h.v>>)))
    ELSE Ok(<<typ, value>>)

\* [_encode_field(name, parsed_type, v) for v in value]
EncodeElements(parsed_type, elems, i, pairs, tys) ==
    IF i > Len(elems) THEN Ok(pairs)
    ELSE Bind(encode_field(parsed_type, elems[i], tys), LAMBDA p :
             IF ~IsOk(p) THEN p
             ELSE EncodeElements(parsed_type, elems, i + 1, Append(pairs, p.v), tys))

\* The loop of lines 82-85 from field i, with the lists built so far.
EncodeFields(fields, i, value, tys, tags, vals) ==
    IF i > Len(fields) THEN Ok(<<tags, vals>>)
    ELSE LET x == Subscript(value, fields[i].name)
         IN IF ~IsOk(x) THEN x
            ELSE Bind(encode_field(fields[i].type, x.v, tys), LAMBDA p :
                     IF ~IsOk(p) THEN p
                     ELSE EncodeFields(fields, i + 1, value, tys,
                                       Append(tags, p.v[1]), Append(vals, p.v[2])))

\* encoded_types and encoded_values as encode_data hands them to encode_abi.
encoded_pairs(primary_type, value, tys) ==
    Bind(hash_type(primary_type, tys), LAMBDA th :
        IF ~IsOk(th) THEN th
        ELSE EncodeFields(tys[primary_type], 1, value, tys, <<TBytes32>>, <<th.v>>))

encode_data(primary_type, value, tys) ==
    Bind(encoded_pairs(primary_type, value, tys), LAMBDA ps :
        IF ~IsOk(ps) THEN ps ELSE encode_abi(ps.v[1], ps.v[2]))

hash_struct(primary_type, value, tys) ==
    Bind(encode_data(primary_type, value, tys), LAMBDA e :
        IF ~IsOk(e) THEN e ELSE fast_keccak(e.v))

----------------------------------------------------------------------------
(* Digest assembler *)

EIP712Domain == <<"E", "I", "P", "7", "1", "2", "D", "o", "m", "a", "i", "n">>

\* bytes.fromhex("1901")
Magic == PyBytes(<<Byte(25), Byte(1)>>)

\* typed_data[key]
DocGet(typed_data, item) ==
    IF item \in DOMAIN typed_data THEN Ok(typed_data[item]) ELSE Raise("KeyError")

\* The body of the try block of eip712_encode.
eip712_encode_try(typed_data) ==
    LET d == DocGet(typed_data, "domain")
        t == DocGet(typed_data, "types")
        pt == DocGet(typed_data, "primaryType")
        m == DocGet(typed_data, "message")
    IN IF ~IsOk(d) THEN d
       ELSE IF ~IsOk(t) THEN t
       ELSE Bind(hash_struct(EIP712Domain, d.v, t.v), LAMBDA h1 :
                IF ~IsOk(h1) THEN h1
                ELSE IF ~IsOk(pt) THEN pt
                ELSE IF pt.v = EIP712Domain THEN Ok(<<Magic, h1.v>>)
                ELSE IF ~IsOk(m) THEN m
                ELSE Bind(hash_struct(pt.v, m.v, t.v), LAMBDA h2 :
                         IF ~IsOk(h2) THEN h2 ELSE Ok(<<Magic, h1.v, h2.v>>)))

\* An except clause that lets KeyError through.
CaughtWithoutKeyError == {"AttributeError", "TypeError", "IndexError"}

\* except (KeyError, AttributeError, TypeError, IndexError)
Caught == {"KeyError", "AttributeError", "TypeError", "IndexError"}

eip712_encode(typed_data) ==
    Bind(eip712_encode_try(typed_data), LAMBDA r :
        IF ~IsOk(r) /\ r.e \in Caught THEN Raise("ValueError") ELSE r)

\* b"".join(parts)
RECURSIVE JoinBytes(_)
JoinBytes(parts) ==
    IF parts = <<>> THEN <<>> ELSE Head(parts).b \o JoinBytes(Tail(parts))

eip712_encode_hash(typed_data) ==
    Bind(eip712_encode(typed_data), LAMBDA e :
        IF ~IsOk(e) THEN e ELSE fast_keccak(PyBytes(JoinBytes(e.v))))

----------------------------------------------------------------------------
(* eip712_signature *)

\* The value of a hexadecimal digit.
HexVal(c) == IF Ord(c) <= 57 THEN Ord(c) - 48 ELSE Ord(c) - 87

\* The bytes a hexadecimal text denotes, two digits to a byte.
RECURSIVE FromHex(_)
FromHex(s) ==
    IF Len(s) < 2 THEN <<>>
    ELSE <<Byte(16 * HexVal(s[1]) + HexVal(s[2]))>> \o FromHex(SubSeq(s, 3, Len(s)))

StartsWith0x(s) == Len(s) >= 2 /\ s[1] = "0" /\ s[2] = "x"

\* Account.from_key: the key, given as bytes or as hexadecimal text with or
\* without the 0x prefix.
from_key(private_key) ==
    IF private_key.k = "bytes" THEN private_key.b
    ELSE IF StartsWith0x(private_key.s)
         THEN FromHex(SubSeq(private_key.s, 3, Len(private_key.s)))
    ELSE FromHex(private_key.s)

\* account.signHash(hashed_payload)["signature"]: bytes that determine the key
\* and the digest signed.
signHash(account, hashed_payload) ==
    Ok(PyBytes(<<[k |-> "sig", key |-> account, digest |-> hashed_payload]>>))

\* Lines 173-174: a list or tuple is joined, anything else is taken as it is.
JoinedPayload(payload_) ==
    IF payload_.k = "list" THEN PyBytes(JoinBytes(payload_.l)) ELSE payload_

\* Lines 176-179: the prefix is cut from a text key; for a bytes key the call
\* bytes.hex() has no argument and raises TypeError.
NormalizedKey(private_key) ==
    IF private_key.k = "str" /\ StartsWith0x(private_key.s)
    THEN Ok(PyStr(SubSeq(private_key.s, 3, Len(private_key.s))))
    ELSE IF private_key.k = "bytes" THEN Raise("TypeError")
    ELSE Ok(private_key)

\* A hash step that takes 32 bytes for a digest already computed.
HashedUnlessDigest(joined) ==
    IF IsWord32(joined) THEN Ok(joined) ELSE fast_keccak(joined)

\* Line 182: hashed_payload = fast_keccak(payload)
HashedPayload(joined) == fast_keccak(joined)

eip712_signature(payload_, private_key) ==
    LET joined == JoinedPayload(payload_)
        nk == NormalizedKey(private_key)
        hp == HashedPayload(joined)
    IN IF ~IsOk(nk) THEN nk
       ELSE IF ~IsOk(hp) THEN hp
       ELSE signHash(from_key(nk.v), hp.v)

----------------------------------------------------------------------------
(* The schemas of the type-resolver specifications *)

MaxSchemaFields == 4

TB == <<"B">>
TBa == <<"B", "a">>
Ta == <<"a">>
StructNames == {TB, TBa, Ta}

\* A plain reference, a dynamic array and a fixed-size array.  A name with no
\* entry in the schema is what a value type is to the resolver.
FieldTypePool == {TB, TBa \o <<"[", "]">>, Ta \o <<"[", "2", "]">>}

\* The i-th declared field is named "x", "xx", ...
NameAt(i) == [j \in 1..i |-> "x"]

ListsOfLen(pool, k) ==
    {[i \in 1..k |-> [name |-> NameAt(i), type |-> ts[i]]] : ts \in [1..k -> pool]}

\* How many fields each name declares, -1 for a name with no entry: at most n in all.
LenProfiles(n) ==
    {l \in [StructNames -> -1..n] :
        (IF l[TB] > 0 THEN l[TB] ELSE 0) + (IF l[TBa] > 0 THEN l[TBa] ELSE 0)
            + (IF l[Ta] > 0 THEN l[Ta] ELSE 0) <= n}

SchemasOf(pool, l) ==
    LET len(m) == IF l[m] > 0 THEN l[m] ELSE 0
    IN {[m \in {x \in StructNames : l[x] >= 0} |->
            IF m = TB THEN a ELSE IF m = TBa THEN b ELSE c] :
          a \in ListsOfLen(pool, len(TB)),
          b \in ListsOfLen(pool, len(TBa)),
          c \in ListsOfLen(pool, len(Ta))}

\* Every schema over the three names that declares at most n fields in all.
Schemas(pool, n) == UNION {SchemasOf(pool, l) : l \in LenProfiles(n)}

Idle == <<>>
IdleResolver == results = <<>> /\ stack = <<>> /\ visits = Idle
IdleData == field = Idle /\ data = Idle /\ data2 = Idle /\ handed = Idle
IdleDoc == doc = Idle /\ payload = Idle /\ key = Idle /\ raised = Idle

InitType ==
    /\ op = "init"
    /\ types \in Schemas(FieldTypePool, MaxSchemaFields)
    /\ primary \in StructNames
    /\ IdleResolver /\ IdleData /\ IdleDoc
    /\ out = Idle

EncodeType ==
    /\ op = "init"
    /\ op' = "encode_type"
    /\ out' = encode_type(primary, types)
    /\ UNCHANGED <<types, primary, resolverVars, dataVars, docVars>>

NextType == EncodeType
SpecType == InitType /\ [][NextType]_vars

----------------------------------------------------------------------------
(* What the type signature is required to be *)

\* The element type named by a field type: the text before its first "[".
ElementName(t) ==
    LET cut == {i \in 1..Len(t) : t[i] = "["}
    IN IF cut = {} THEN t
       ELSE SubSeq(t, 1, (CHOOSE i \in cut : \A j \in cut : i <= j) - 1)

\* The struct types of a schema: the names that resolve to a field list with fields.
Structs(tys) == {n \in DOMAIN tys : tys[n] # <<>>}

\* The struct types named by the fields of struct type n.
Refs(tys, n) ==
    {ElementName(tys[n][i].type) : i \in 1..Len(tys[n])} \cap Structs(tys)

RECURSIVE RefClosure(_, _)
RefClosure(tys, S) ==
    LET S2 == S \cup UNION {Refs(tys, n) : n \in S}
    IN IF S2 = S THEN S ELSE RefClosure(tys, S2)

\* The struct types transitively referenced from the fields of T, T excluded.
Dependencies(tys, T) == RefClosure(tys, Refs(tys, T)) \ {T}

\* The names of a set in strictly increasing code-point order.
RECURSIVE Ascending(_)
Ascending(S) ==
    IF S = {} THEN <<>>
    ELSE LET m == CHOOSE x \in S : \A y \in S \ {x} : StrLess(x, y)
         IN <<m>> \o Ascending(S \ {m})

\* The renderings of the names of `order`, with the field lists of tys, concatenated.
RECURSIVE Concatenated(_, _)
Concatenated(order, tys) ==
    IF order = <<>> THEN <<>>
    ELSE Rendering(Head(order), tys[Head(order)]) \o Concatenated(Tail(order), tys)

Orderings(n) == {f \in [1..n -> 1..n] : \A i, j \in 1..n : f[i] = f[j] => i = j}

\* The schema with the field declarations of d in the order f.
Permuted(tys, d, f) ==
    [tys EXCEPT ![d] = [i \in 1..Len(tys[d]) |-> tys[d][f[i]]]]

\* C1: for a primary type T with fields, encode_type(T, schema) is T's rendering
\* followed by the renderings of exactly the struct types transitively referenced
\* from T (each once, T excluded) in strictly increasing code-point order, and
\* permuting the field declarations of a dependency changes the renderings but
\* not the order of the list.
TypeSignatureCanonical ==
    (op = "encode_type" /\ primary \in Structs(types)) =>
        LET order == <<primary>> \o Ascending(Dependencies(types, primary))
        IN /\ out = Ok(Concatenated(order, types))
           /\ \A d \in Dependencies(types, primary) :
                  \A f \in Orderings(Len(types[d])) :
                      LET tys2 == Permuted(types, d, f)
                      IN encode_type(primary, tys2) = Ok(Concatenated(order, tys2))

\* C1 witness: a signature whose two dependencies were discovered in descending
\* order, one of them through an array type and only through the other.
TypeSignatureWitness ==
    /\ op = "encode_type" /\ primary = TBa /\ IsOk(out)
    /\ find_type_dependencies(primary, types, <<>>) = <<TBa, Ta, TB>>
    /\ Refs(types, TBa) = {Ta}
    /\ Len(types[Ta]) = 2 /\ types[Ta][1].type # types[Ta][2].type

\* C5 as stated: encode_type fails whenever T or a type name reachable from T
\* through field types resolves to an empty field list or to no entry.
RECURSIVE NamedClosure(_, _)
NamedClosure(tys, S) ==
    LET S2 == S \cup UNION {{ElementName(tys[n][i].type) : i \in 1..Len(tys[n])} :
                               n \in S \cap DOMAIN tys}
    IN IF S2 = S THEN S ELSE NamedClosure(tys, S2)

----------------------------------------------------------------------------
(* find_type_dependencies, one statement at a time *)

Frame(typ) == [typ |-> typ, pt |-> FirstWord(typ), i |-> 1, pc |-> "enter"]

Top == stack[Len(stack)]
Pop == SubSeq(stack, 1, Len(stack) - 1)

\* return results: the frame is dropped; the caller, if any, resumes after its call.
Returned(stk) ==
    IF stk = <<>> THEN stk
    ELSE [stk EXCEPT ![Len(stk)].pc = "merge"]

InitDeps ==
    /\ op = "init"
    /\ types \in Schemas(FieldTypePool, MaxSchemaFields)
    /\ primary \in StructNames
    /\ results = <<>>
    /\ stack = <<Frame(primary)>>
    /\ visits = [n \in StructNames |-> 0]
    /\ IdleData /\ IdleDoc
    /\ out = Idle

\* The call that empties the stack has returned to its caller with the list.
DepsResult ==
    /\ op' = IF stack' = <<>> THEN "find_type_dependencies" ELSE op
    /\ out' = IF stack' = <<>> THEN Ok(results') ELSE out
    /\ UNCHANGED <<types, primary, dataVars, docVars>>

\* Lines 109-111: the base case returns the list as it is.
DepsBaseCase ==
    /\ stack # <<>> /\ Top.pc = "enter"
    /\ AlreadyVisited(Top.pt, results) \/ ~HasFields(types, Top.pt)
    /\ stack' = Returned(Pop)
    /\ UNCHANGED <<results, visits>>
    /\ DepsResult

\* Line 112: the type is appended and its field loop is entered.
DepsVisit ==
    /\ stack # <<>> /\ Top.pc = "enter"
    /\ ~(AlreadyVisited(Top.pt, results) \/ ~HasFields(types, Top.pt))
    /\ results' = Append(results, Top.pt)
    /\ visits' = [visits EXCEPT ![Top.pt] = @ + 1]
    /\ stack' = [stack EXCEPT ![Len(stack)].pc = "loop"]
    /\ DepsResult

\* Lines 114-115: the recursive call for the next field.
DepsRecurse ==
    /\ stack # <<>> /\ Top.pc = "loop"
    /\ Top.i <= Len(types[Top.pt])
    /\ stack' = [stack EXCEPT ![Len(stack)].pc = "wait"]
                    \o <<Frame(types[Top.pt][Top.i].type)>>
    /\ UNCHANGED <<results, visits>>
    /\ DepsResult

\* Lines 116-118: deps is the shared list; what it lacks is appended.
DepsMerge ==
    /\ stack # <<>> /\ Top.pc = "merge"
    /\ results' = AppendMissing(results, 1, results)
    /\ stack' = [stack EXCEPT ![Len(stack)].pc = "loop", ![Len(stack)].i = @ + 1]
    /\ UNCHANGED visits
    /\ DepsResult

\* Line 120: the loop is over.
DepsReturn ==
    /\ stack # <<>> /\ Top.pc = "loop"
    /\ Top.i > Len(types[Top.pt])
    /\ stack' = Returned(Pop)
    /\ UNCHANGED <<results, visits>>
    /\ DepsResult

NextDeps == DepsBaseCase \/ DepsVisit \/ DepsRecurse \/ DepsMerge \/ DepsReturn
SpecDeps == InitDeps /\ [][NextDeps]_vars /\ WF_vars(NextDeps)

NoDuplicates(s) == \A i, j \in 1..Len(s) : s[i] = s[j] => i = j

\* C6: find_type_dependencies returns on every schema, cyclic ones included;
\* no type is appended twice, the field loop of a type is entered at most once,
\* the call depth stays within the number of struct types plus one, and the
\* list returned has no duplicates (and is the list the recursive definition gives).
DependenciesTerminate ==
    /\ <>(op = "find_type_dependencies")
    /\ [](/\ NoDuplicates(results)
          /\ \A n \in StructNames : visits[n] <= 1
          /\ Len(stack) <= Cardinality(Structs(types)) + 1
          /\ op = "find_type_dependencies" =>
                /\ stack = <<>>
                /\ out = Ok(find_type_dependencies(primary, types, <<>>)))

\* C6 witness: the call has returned on a schema whose three types form a
\* reference cycle, one of the references being a self-reference as well.
DependenciesCycleWitness ==
    /\ op = "find_type_dependencies"
    /\ Len(results) = 3
    /\ \A n \in StructNames : n \in RefClosure(types, Refs(types, n))
    /\ \E n \in StructNames : n \in Refs(types, n)

----------------------------------------------------------------------------
(* The documents of the encoder specifications *)

MaxArrayLen == 2

TM == <<"M">>
TP == <<"P">>

Dynamic(t) == t \o <<"[", "]">>
Fixed2(t) == t \o <<"[", "2", "]">>
Fixed10(t) == t \o <<"[", "1", "0", "]">>

ElementTypes == {TUint8, TBytes, TString, TP}
DynamicTypes == {Dynamic(t) : t \in ElementTypes}
FixedTypes == {Fixed2(t) : t \in ElementTypes} \cup {Fixed10(TUint8)}
DataFieldTypes == ElementTypes \cup DynamicTypes \cup FixedTypes

FieldOf(name, type) == [name |-> name, type |-> type]

\* M declares the field under test between two uint8 fields; P is a struct.
DataSchema(ft) ==
    (EIP712Domain :> <<FieldOf(<<"n", "a", "m", "e">>, TString)>>)
    @@ (TM :> <<FieldOf(<<"a">>, TUint8), FieldOf(<<"f">>, ft), FieldOf(<<"z">>, TUint8)>>)
    @@ (TP :> <<FieldOf(<<"n">>, TUint8)>>)

Person(n) == PyDict(<<"n">> :> PyInt(n))

\* Marks a message that has no entry for the field under test.
Missing == [k |-> "missing"]

ElementValues ==
    {PyNone, PyInt(1), PyInt(2), PyStr(<<"a">>), PyStr(<<"b">>),
     PyBytes(<<Byte(97)>>), PyBytes(<<Byte(98)>>), Person(1), Person(2)}

ListValues(n) == {PyList(s) : s \in UNION {[1..k -> ElementValues] : k \in 0..n}}

DataValues(n) == ElementValues \cup ListValues(n) \cup {PyDict(<<>>), Missing}

\* The value tree of M with value v for the field under test.
Message(v) ==
    IF v = Missing THEN PyDict((<<"a">> :> PyInt(1)) @@ (<<"z">> :> PyInt(2)))
    ELSE PyDict((<<"a">> :> PyInt(1)) @@ (<<"f">> :> v) @@ (<<"z">> :> PyInt(2)))

InitData ==
    /\ op = "init"
    /\ field \in DataFieldTypes
    /\ types = DataSchema(field)
    /\ primary = TM
    /\ data \in DataValues(MaxArrayLen)
    /\ data2 = Idle /\ handed = Idle
    /\ IdleResolver /\ IdleDoc
    /\ out = Idle

EncodeData ==
    /\ op = "init"
    /\ op' = "encode_data"
    /\ handed' = encoded_pairs(primary, Message(data), types)
    /\ out' = encode_data(primary, Message(data), types)
    /\ UNCHANGED <<types, primary, resolverVars, field, data, data2, docVars>>

NextData == EncodeData
SpecData == InitData /\ [][NextData]_vars

\* The position of the field under test in the lists handed to the ABI encoder:
\* the type hash comes first, then the fields as M declares them.
FieldPos ==
    1 + CHOOSE i \in 1..Len(DataSchema(TUint8)[TM]) :
            DataSchema(TUint8)[TM][i].name = <<"f">>

\* What a value of the declared type looks like.
Conforms(t, v) ==
    \/ t = TUint8 /\ v.k = "int"
    \/ t = TBytes /\ v.k = "bytes"
    \/ t = TString /\ v.k = "str"
    \/ t = TP /\ v \in {Person(1), Person(2)}

ConformsArray(t, v) ==
    /\ v.k = "list"
    /\ \A i \in 1..Len(v.l) : Conforms(ElementName(t), v.l[i])

\* 32 zero bytes.
ZeroBytes32 == PyBytes([i \in 1..32 |-> Byte(0)])

\* C3: a null value is encoded as ("bytes32", 32 zero bytes) at the field's
\* position, without failure, exactly when the declared type is a struct of the
\* schema; a null value of any other type makes encode_data fail.
NullPolicy ==
    (op = "encode_data" /\ data = PyNone) =>
        IF field \in DOMAIN types
        THEN /\ IsOk(handed)
             /\ Len(handed.v[1]) = Len(types[primary]) + 1
             /\ handed.v[1][FieldPos] = TBytes32
             /\ handed.v[2][FieldPos] = ZeroBytes32
        ELSE ~IsOk(handed) /\ ~IsOk(out)

\* The tag and value lists that were hashed into the word of the field under test.
ArrayTags == handed.v[2][FieldPos].b[1].pre[1].tags
ArrayValues == handed.v[2][FieldPos].b[1].pre[1].values

\* C9: for an array field with n elements the ABI encoder is handed n tags and n
\* values, the pairs of the elements in order, and the field's word is the hash
\* of that encoding.
ArrayKeepsEveryElement ==
    (op = "encode_data" /\ field \in DynamicTypes /\ ConformsArray(field, data)
        /\ IsOk(handed)) =>
        /\ handed.v[1][FieldPos] = TBytes32
        /\ Len(ArrayTags) = Len(data.l)
        /\ Len(ArrayValues) = Len(data.l)
        /\ \A i \in 1..Len(data.l) :
              Ok(<<ArrayTags[i], ArrayValues[i]>>)
                  = encode_field(ElementName(field), data.l[i], types)

\* C10: a field declared T[N] is encoded as the same field declared T[]: each
\* element is resolved as a T and the same pair is emitted for the same value,
\* whatever its length.
FixedArrayAsDynamic ==
    (op = "encode_data" /\ field \in FixedTypes /\ ConformsArray(field, data)) =>
        LET dyn == encoded_pairs(primary, Message(data),
                                 DataSchema(Dynamic(ElementName(field))))
        IN /\ IsOk(dyn) /\ IsOk(handed)
           /\ handed.v[1][FieldPos] = dyn.v[1][FieldPos]
           /\ handed.v[2][FieldPos] = dyn.v[2][FieldPos]

----------------------------------------------------------------------------
(* Two documents that differ in one field value *)

ConformsTo(t, v) ==
    IF t \in ElementTypes THEN Conforms(t, v) ELSE ConformsArray(t, v)

DomainValue == PyDict(<<"n", "a", "m", "e">> :> PyStr(<<"a">>))

\* The document with primary type M whose field under test has type ft and value v.
Document(ft, v) ==
    ("domain" :> DomainValue) @@ ("primaryType" :> TM)
    @@ ("message" :> Message(v)) @@ ("types" :> DataSchema(ft))

InitBinding ==
    /\ op = "init"
    /\ field \in DataFieldTypes
    /\ types = DataSchema(field)
    /\ primary = TM
    /\ data \in {v \in DataValues(MaxArrayLen) : ConformsTo(field, v)}
    /\ data2 \in {v \in DataValues(MaxArrayLen) : ConformsTo(field, v)}
    /\ data # data2
    /\ handed = Idle
    /\ doc = Document(field, data)
    /\ payload = Idle /\ key = Idle /\ raised = Idle
    /\ IdleResolver
    /\ out = Idle

HashBoth ==
    /\ op = "init"
    /\ op' = "eip712_encode_hash"
    /\ out' = <<eip712_encode_hash(doc), eip712_encode_hash(Document(field, data2))>>
    /\ UNCHANGED <<types, primary, resolverVars, dataVars, docVars>>

NextBinding == HashBoth
SpecBinding == InitBinding /\ [][NextBinding]_vars

\* C2: two documents with the same schema, domain and primary type whose
\* messages differ in the value of one field have different digests.
StructHashBinding ==
    (op = "eip712_encode_hash" /\ data # data2 /\ IsOk(out[1]) /\ IsOk(out[2]))
        => out[1] # out[2]

----------------------------------------------------------------------------
(* eip712_encode on documents with lookup and shape failures *)

DocKeys == {"domain", "primaryType", "types", "message"}

DocFieldTypes == {TUint8, TString, TP, Dynamic(TP)}

\* The schema as it is, without one of its entries, or with an entry left empty.
SchemaVariants(ft) ==
    {DataSchema(ft)}
    \cup {[n \in DOMAIN DataSchema(ft) \ {x} |-> DataSchema(ft)[n]] : x \in {EIP712Domain, TM}}
    \cup {[DataSchema(ft) EXCEPT ![x] = <<>>] : x \in {EIP712Domain, TM}}

DomainValues == {DomainValue, PyDict(<<>>), PyNone, PyList(<<>>)}

DocValues ==
    {PyInt(1), PyStr(<<"a">>), PyNone, Person(1), PyDict(<<>>), PyList(<<Person(1)>>),
     PyList(<<Person(1), PyDict(<<>>)>>), Missing}

InitDoc ==
    /\ op = "init"
    /\ field \in DocFieldTypes
    /\ types \in SchemaVariants(field)
    /\ primary \in {TM, EIP712Domain}
    /\ data \in DocValues
    /\ data2 \in DomainValues
    /\ handed = Idle
    /\ \E present \in SUBSET DocKeys :
          doc = [x \in present |->
                    IF x = "domain" THEN data2
                    ELSE IF x = "primaryType" THEN primary
                    ELSE IF x = "message" THEN Message(data)
                    ELSE types]
    /\ payload = Idle /\ key = Idle /\ raised = Idle
    /\ IdleResolver
    /\ out = Idle

Eip712Encode ==
    /\ op = "init"
    /\ op' = "eip712_encode"
    /\ raised' = eip712_encode_try(doc)
    /\ out' = eip712_encode(doc)
    /\ UNCHANGED <<types, primary, resolverVars, dataVars, doc, payload, key>>

Eip712EncodeHash ==
    /\ op = "init"
    /\ op' = "eip712_encode_hash"
    /\ raised' = eip712_encode_try(doc)
    /\ out' = eip712_encode_hash(doc)
    /\ UNCHANGED <<types, primary, resolverVars, dataVars, doc, payload, key>>

NextDoc == Eip712Encode \/ Eip712EncodeHash
SpecDoc == InitDoc /\ [][NextDoc]_vars

\* The exceptions of a failed lookup or of a value of the wrong shape.
LookupErrors == {"KeyError", "TypeError", "AttributeError", "IndexError"}

\* The domain part of the document is there and encodes.
DomainEncodes ==
    /\ {"domain", "types"} \subseteq DOMAIN doc
    /\ IsOk(hash_struct(EIP712Domain, doc["domain"], doc["types"]))

\* C4: a lookup or shape failure while reading the document reaches the caller
\* of eip712_encode and eip712_encode_hash as ValueError, never as a raw
\* KeyError, TypeError, AttributeError or IndexError, and without a payload:
\* whatever was raised inside, and in particular for a missing top-level key, a
\* missing EIP712Domain or primaryType entry of types, and a missing message.
UniformDocumentError ==
    op \in {"eip712_encode", "eip712_encode_hash"} =>
        /\ ~IsOk(out) => out.e \notin LookupErrors
        /\ (~IsOk(raised) /\ raised.e \in LookupErrors) => out = Raise("ValueError")
        /\ ~({"domain", "types"} \subseteq DOMAIN doc) => out = Raise("ValueError")
        /\ ({"domain", "types"} \subseteq DOMAIN doc
               /\ EIP712Domain \notin DOMAIN doc["types"]) => out = Raise("ValueError")
        /\ (DomainEncodes /\ "primaryType" \notin DOMAIN doc) => out = Raise("ValueError")
        /\ (DomainEncodes /\ "primaryType" \in DOMAIN doc
               /\ doc["primaryType"] \notin DOMAIN doc["types"]) => out = Raise("ValueError")
        /\ (DomainEncodes /\ "primaryType" \in DOMAIN doc
               /\ doc["primaryType"] # EIP712Domain
               /\ "message" \notin DOMAIN doc) => out = Raise("ValueError")
        /\ (DomainEncodes /\ DOMAIN doc = DocKeys
               /\ doc["primaryType"] # EIP712Domain
               /\ doc["primaryType"] \in Structs(doc["types"])
               /\ data = Missing) => out = Raise("ValueError")

\* C4 witness: every top-level key is there and the domain encodes, but an
\* element of the array of structs lacks its declared field: the KeyError
\* raised two levels down reaches the caller as ValueError.
NestedMissingFieldWitness ==
    /\ op = "eip712_encode_hash"
    /\ DOMAIN doc = DocKeys /\ DomainEncodes
    /\ field = Dynamic(TP) /\ primary = TM
    /\ data = PyList(<<Person(1), PyDict(<<>>)>>)
    /\ raised = Raise("KeyError")
    /\ out = Raise("ValueError")

----------------------------------------------------------------------------
(* eip712_signature on the payload of a document *)

HexDigits == <<"0", "1", "2", "3", "4", "5", "6", "7", "8", "9",
               "a", "b", "c", "d", "e", "f">>

\* bytes.hex(): two hexadecimal digits for each byte.
RECURSIVE ToHex(_)
ToHex(b) ==
    IF b = <<>> THEN <<>>
    ELSE <<HexDigits[(Head(b).n \div 16) + 1], HexDigits[(Head(b).n % 16) + 1]>>
             \o ToHex(Tail(b))

\* Two private keys, shortened to two bytes.
KeyBytes == {<<Byte(1), Byte(35)>>, <<Byte(171), Byte(205)>>}

\* A key as raw bytes, as hexadecimal text, and as text with the 0x prefix.
KeyForms(kb) == {PyBytes(kb), PyStr(ToHex(kb)), PyStr(<<"0", "x">> \o ToHex(kb))}

\* Documents that encode: primary type M with a value of the field's type, and
\* a document whose primary type is EIP712Domain.
SignableDocuments ==
    {Document(TUint8, PyInt(1)), Document(TUint8, PyInt(2)),
     Document(TString, PyStr(<<"a">>)), Document(TP, Person(1)),
     [Document(TUint8, PyInt(1)) EXCEPT !["primaryType"] = EIP712Domain]}

\* What a caller may pass for a document: the list eip712_encode returns, the
\* same list joined, or the digest eip712_encode_hash returns.
PayloadForms(d) ==
    {PyList(eip712_encode(d).v),
     PyBytes(JoinBytes(eip712_encode(d).v)),
     eip712_encode_hash(d).v}

InitSign ==
    /\ op = "init"
    /\ doc \in SignableDocuments
    /\ types = doc["types"]
    /\ primary = doc["primaryType"]
    /\ payload \in PayloadForms(doc)
    /\ \E kb \in KeyBytes : key \in KeyForms(kb)
    /\ raised = Idle
    /\ IdleResolver /\ IdleData
    /\ out = Idle

Eip712Signature ==
    /\ op = "init"
    /\ op' = "eip712_signature"
    /\ out' = eip712_signature(payload, key)
    /\ UNCHANGED <<types, primary, resolverVars, dataVars, docVars>>

NextSign == Eip712Signature
SpecSign == InitSign /\ [][NextSign]_vars

\* The digest of the document and the digest and key inside a signature.
Digest == eip712_encode_hash(doc).v
SignedDigest == out.v.b[1].digest
SignedKey == out.v.b[1].key

\* The key bytes the argument stands for.
MeantKey == IF key.k = "bytes" THEN key.b
            ELSE IF StartsWith0x(key.s) THEN FromHex(SubSeq(key.s, 3, Len(key.s)))
            ELSE FromHex(key.s)

\* C7 as stated: given the list of eip712_encode or the digest of
\* eip712_encode_hash, with a key given as text, the signer is handed
\* hash(concat(payload)), the digest of the document.
SignsDigestOfDocument ==
    (op = "eip712_signature" /\ key.k = "str"
        /\ payload \in {PyList(eip712_encode(doc).v), Digest}) =>
        /\ IsOk(out)
        /\ SignedDigest = Digest

\* C7 amended: eip712_signature joins a list and then hashes whatever it has:
\* with a key given as text the signer is handed the hash of the joined
\* payload, which is the digest of the document for the list and for its
\* concatenation, and the hash of the digest, another value, for the digest;
\* with a key given as bytes no signature is made.
SignsHashOfPayload ==
    op = "eip712_signature" =>
        /\ key.k = "str" =>
              /\ IsOk(out)
              /\ SignedKey = MeantKey
              /\ payload.k = "list" => SignedDigest = Digest
              /\ (payload.k = "bytes" /\ payload # Digest) => SignedDigest = Digest
              /\ payload = Digest =>
                    /\ SignedDigest = PyBytes(<<[k |-> "keccak", pre |-> Digest.b]>>)
                    /\ SignedDigest # Digest
        /\ key.k = "bytes" => ~IsOk(out)

\* C7 witness: the digest was passed with a text key and a signature came
\* back, over another value than the one signed for the list.
SignedDigestOfDigestWitness ==
    /\ op = "eip712_signature"
    /\ payload = Digest /\ key.k = "str" /\ StartsWith0x(key.s)
    /\ IsOk(out)
    /\ out # eip712_signature(PyList(eip712_encode(doc).v), key)

\* C8: the key is accepted as raw bytes, as hexadecimal text and as text with
\* the 0x prefix: each call succeeds and signs with the same key.
AcceptsEveryKeyForm ==
    op = "eip712_signature" =>
        /\ IsOk(out)
        /\ SignedKey = MeantKey

====
